---- MODULE Spec2Model ----
(***************************************************************************)
(* The PrC dashboard (streamlit_app.py) as a state machine.                *)
(*                                                                         *)
(* The script is re-executed top to bottom on every interaction.  One      *)
(* action of the model is one whole execution of the script: the cached    *)
(* load_data(), the four sidebar widgets, the filter, the monthly summary  *)
(* and the two customer tables.  An exception ends the execution where it  *)
(* is raised; what the script had not built by then is not shown.          *)
(*                                                                         *)
(* A DataFrame is a sequence of records (its rows, in order); each row     *)
(* of merged_df carries its index label, which filtering keeps.            *)
(***************************************************************************)
EXTENDS Integers, Sequences, FiniteSets

\* ------------------------------------------------------------------------
\* Bounds and input domains

\* Number of rows of data/Actuals_data.csv.
MaxRows == 2

\* A cell that pd.to_numeric(errors='coerce') could not parse, or that is
\* empty: NaN.  Every comparison with NaN is false and sum()/nunique() skip it.
NaN == -1

\* A missing value of a text column (Country, City, Restaurant_Name, Rest_Key).
StrNaN == "NaN"

\* A Date that pd.to_datetime(errors='coerce') could not parse.
NaT == [y |-> NaN, m |-> NaN]

\* Alphabetical order of the text values (Python's sorted(), groupby's key order).
Alphabet == <<"Bistro A", "France", "Madrid", "NaN", "Paris", "R1", "R2", "Spain", "Tapas B">>

Ord(s) == CHOOSE k \in DOMAIN Alphabet : Alphabet[k] = s

Keys == {"R1", "R2"}

ValidDates == {[y |-> 2022, m |-> 2], [y |-> 2023, m |-> 1]}

\* <<Sales, Customers>> of a transaction row.
Amounts == {<<NaN, 1>>, <<2, NaN>>}

CsvRow(k, d, a) == [Rest_Key |-> k, Date |-> d, Sales |-> a[1], Customers |-> a[2]]

\* The rows a file is made of: complete rows with one of the two amounts
\* missing, a row whose Date did not parse, and a row without Rest_Key.
CsvRows ==
    {CsvRow(k, d, a) : k \in Keys, d \in ValidDates, a \in Amounts} \cup
    {CsvRow("R1", NaT, <<1, 2>>), CsvRow(StrNaN, [y |-> 2023, m |-> 1], <<2, 1>>)}

CsvFiles == UNION {[1..n -> CsvRows] : n \in 0..MaxRows}

Loc(k, country, city, name) ==
    [Rest_Key |-> k, Country |-> country, City |-> city, Restaurant_Name |-> name]

\* data/Location.xlsx, Rest_Key unique: a table with every cell filled, and a
\* table with a Restaurant_Name and a Country missing.
LocationFiles ==
    { <<Loc("R1", "France", "Paris", "Bistro A"), Loc("R2", "Spain", "Madrid", "Tapas B")>>,
      <<Loc("R2", "Spain", "Madrid", StrNaN), Loc("R1", StrNaN, "Paris", "Bistro A")>> }

\* ------------------------------------------------------------------------
\* State

VARIABLES
    actuals_csv,            \* data/Actuals_data.csv, cells already coerced
    location_xlsx,          \* data/Location.xlsx
    sort_keeps_ties,        \* whether the build's default sort keeps equal elements in place
    status,                 \* "not_run", "ok", or the exception that ended the last run
    merged_df,              \* load_data()'s third result (st.cache_data)
    month_dtype,            \* dtype of the Month column
    selected_year_range,    \* the slider's value <<lo, hi>>
    selected_countries,     \* the multiselects' values
    selected_cities,
    selected_restaurants,
    filtered_df,
    monthly_summary,
    customers_by_restaurant,
    customers_by_country

vars ==
    <<actuals_csv, location_xlsx, sort_keeps_ties, status, merged_df, month_dtype,
      selected_year_range, selected_countries, selected_cities, selected_restaurants,
      filtered_df, monthly_summary, customers_by_restaurant, customers_by_country>>

\* ------------------------------------------------------------------------
\* Helpers on sequences

RECURSIVE Concat(_)
Concat(ss) == IF ss = <<>> THEN <<>> ELSE Head(ss) \o Concat(Tail(ss))

\* Python list indexing: list[i], 0-based.
ListGet(list, i) == list[i + 1]

\* The place of value k of column by in ascending order: months by number,
\* text alphabetically.
KeyOrder(by, k) == IF by = "Month" THEN k ELSE Ord(k)

\* The values S of column by in ascending order.
SortedKeys(S, by) ==
    [k \in 1..Cardinality(S) |->
        CHOOSE x \in S : Cardinality({y \in S : KeyOrder(by, y) < KeyOrder(by, x)}) = k - 1]

\* ------------------------------------------------------------------------
\* load_data  (lines 22-43)

\* Series.dt.year / Series.dt.month: NaN for NaT.
DtYear(d) == d.y

DtMonth(d) == d.m

\* .dt.month is an integer column unless a NaT is present; then it is float64.
DtDtype(csv) ==
    IF \E i \in DOMAIN csv : csv[i].Date = NaT THEN "float64" ELSE "int32"

ActualsDf(csv) ==
    [i \in DOMAIN csv |->
        [Rest_Key |-> csv[i].Rest_Key, Date |-> csv[i].Date, Sales |-> csv[i].Sales,
         Customers |-> csv[i].Customers,
         Year |-> DtYear(csv[i].Date), Month |-> DtMonth(csv[i].Date)]]

\* One row of the left join's result, before the index is set.
JoinRow(l, r) ==
    [Rest_Key |-> l.Rest_Key, Date |-> l.Date, Sales |-> l.Sales, Customers |-> l.Customers,
     Year |-> l.Year, Month |-> l.Month,
     Country |-> r.Country, City |-> r.City, Restaurant_Name |-> r.Restaurant_Name]

NoLocation == [Country |-> StrNaN, City |-> StrNaN, Restaurant_Name |-> StrNaN]

\* JoinRows as an inner join would do it: a left row without a match gives no row.
JoinRowsInner(l, right) ==
    LET ms == SelectSeq(right, LAMBDA r : r.Rest_Key = l.Rest_Key)
    IN  [j \in DOMAIN ms |-> JoinRow(l, ms[j])]

\* The rows the left row l gives: one per right row with its key (in the right
\* table's order), or one with the right columns missing.
JoinRows(l, right) ==
    LET ms == SelectSeq(right, LAMBDA r : r.Rest_Key = l.Rest_Key)
    IN  IF ms = <<>> THEN <<JoinRow(l, NoLocation)>>
        ELSE [j \in DOMAIN ms |-> JoinRow(l, ms[j])]

WithIndex(row, i) ==
    [Rest_Key |-> row.Rest_Key, Date |-> row.Date, Sales |-> row.Sales,
     Customers |-> row.Customers, Year |-> row.Year, Month |-> row.Month,
     Country |-> row.Country, City |-> row.City,
     Restaurant_Name |-> row.Restaurant_Name, index |-> i]

\* pd.merge(left, right, on='Rest_Key', how='left'): left order, new RangeIndex.
Merge(left, right) ==
    LET rows == Concat([i \in DOMAIN left |-> JoinRows(left[i], right)])
    IN  [i \in DOMAIN rows |-> WithIndex(rows[i], i - 1)]

load_data(csv, xlsx) ==
    [merged_df |-> Merge(ActualsDf(csv), xlsx), month_dtype |-> DtDtype(csv)]

\* ------------------------------------------------------------------------
\* Sidebar widgets  (lines 48-81)

\* Series.min() / Series.max() skip NaN; NaN when nothing is left.
ValidYears(df) == {df[i].Year : i \in DOMAIN df} \ {NaN}

SeriesMin(S) == IF S = {} THEN NaN ELSE CHOOSE x \in S : \A y \in S : x <= y

SeriesMax(S) == IF S = {} THEN NaN ELSE CHOOSE x \in S : \A y \in S : x >= y

min_year(df) == SeriesMin(ValidYears(df))

max_year(df) == SeriesMax(ValidYears(df))

\* df[col].dropna().unique(): the options of a multiselect.
Options(df, col) == {df[i][col] : i \in DOMAIN df} \ {StrNaN}

\* The values the slider can return: lo <= hi within [min_year, max_year].
SliderValues(df) ==
    {v \in (min_year(df)..max_year(df)) \X (min_year(df)..max_year(df)) : v[1] <= v[2]}

\* ------------------------------------------------------------------------
\* Filtered data  (lines 85-97)

\* Comparisons of a float column: false for NaN.
Ge(a, b) == a # NaN /\ a >= b

\* Le with the upper bound left out of the range.
LeStrict(a, b) == a # NaN /\ a < b

Le(a, b) == a # NaN /\ a <= b

\* IsIn letting a missing value pass.
IsInOrMissing(v, values) == v \in values \/ v = StrNaN

\* Series.isin(values).
IsIn(v, values) == v \in values

YearFilter(df, range) ==
    SelectSeq(df, LAMBDA r : Ge(r.Year, range[1]) /\ Le(r.Year, range[2]))

\* FacetFilter without the "if selected:" test.
FacetFilterAlways(df, col, selected) == SelectSeq(df, LAMBDA r : IsIn(r[col], selected))

\* "if selected: filtered_df = filtered_df[filtered_df[col].isin(selected)]"
FacetFilter(df, col, selected) ==
    IF selected # {} THEN SelectSeq(df, LAMBDA r : IsIn(r[col], selected)) ELSE df

FilteredDf(df, range, countries, cities, restaurants) ==
    FacetFilter(
        FacetFilter(
            FacetFilter(YearFilter(df, range), "Country", countries),
            "City", cities),
        "Restaurant_Name", restaurants)

\* ------------------------------------------------------------------------
\* Aggregations  (lines 103-158)

month_names == <<"Jan", "Feb", "Mar", "Apr", "May", "Jun", "Jul", "Aug", "Sep", "Oct", "Nov", "Dec">>

Column(df, col) == [i \in DOMAIN df |-> df[i][col]]

\* Series.sum(): NaN counts as 0.
RECURSIVE SeriesSum(_)
SeriesSum(values) ==
    IF values = <<>> THEN 0
    ELSE (IF Head(values) = NaN THEN 0 ELSE Head(values)) + SeriesSum(Tail(values))

\* Series.nunique(): the number of distinct values, missing ones left out.
SeriesNUnique(values, na) == Cardinality({values[i] : i \in DOMAIN values} \ {na})

\* GroupKeys as groupby(by, sort=False) would give them: in the order they are met.
GroupKeysAsMet(df, by, na) ==
    LET S == {df[i][by] : i \in DOMAIN df} \ {na}
        Met(g) == CHOOSE i \in DOMAIN df : df[i][by] = g /\ \A j \in 1..(i - 1) : df[j][by] # g
    IN  [k \in 1..Cardinality(S) |->
            CHOOSE x \in S : Cardinality({y \in S : Met(y) < Met(x)}) = k - 1]

\* groupby(by): the groups' keys in ascending order; rows whose key is missing
\* (na) belong to no group.
GroupKeys(df, by, na) == SortedKeys({df[i][by] : i \in DOMAIN df} \ {na}, by)

GroupRows(df, by, k) == SelectSeq(df, LAMBDA r : r[by] = k)

\* df.groupby(by)[col].sum() as a sequence of <<key, sum>>.
GroupBySum(df, by, na, col) ==
    LET ks == GroupKeys(df, by, na)
    IN  [j \in DOMAIN ks |-> <<ks[j], SeriesSum(Column(GroupRows(df, by, ks[j]), col))>>]

\* df.groupby(by)[col].nunique() as a sequence of <<key, count>>.
GroupByNUnique(df, by, na, col, colna) ==
    LET ks == GroupKeys(df, by, na)
    IN  [j \in DOMAIN ks |->
            <<ks[j], SeriesNUnique(Column(GroupRows(df, by, ks[j]), col), colna)>>]

\* Whether "[month_names[m-1] for m in sales_by_month.index]" raises: a list
\* index must be an integer, and the index of a float64 Month column holds floats.
LabelsRaise(index, dtype) == index # <<>> /\ dtype = "float64"

\* pd.DataFrame({'Month': ..., 'Total Sales (EUR)': ..., 'Number of Restaurants': ...}):
\* the labels come from sales_by_month.index, the two value columns by position.
MonthlySummary(sales_by_month, restaurants_by_month) ==
    [j \in DOMAIN sales_by_month |->
        [Month |-> ListGet(month_names, sales_by_month[j][1] - 1),
         Total_Sales |-> sales_by_month[j][2],
         Number_of_Restaurants |-> restaurants_by_month[j][2]]]

\* .reset_index() and the renaming of the two columns.
CustomerTable(grouped) ==
    [j \in DOMAIN grouped |-> [Group |-> grouped[j][1], Total_Customers |-> grouped[j][2]]]

\* sort_values(by='Total Customers', ascending=False) with the default kind
\* ('quicksort'), which does not promise an order among equal values: keeps
\* says whether this build leaves them in place or not.
SortValuesDescending(df, keeps) ==
    LET n == Len(df)
        Before(i, j) ==
            \/ df[i].Total_Customers > df[j].Total_Customers
            \/ /\ df[i].Total_Customers = df[j].Total_Customers
               /\ IF keeps THEN i < j ELSE i > j
        Pos(i) == 1 + Cardinality({j \in 1..n : Before(j, i)})
    IN  [k \in 1..n |-> df[CHOOSE i \in 1..n : Pos(i) = k]]

\* CustomersBy with the country table summing the Sales column.
CustomersByWrongColumn(df, by, keeps) ==
    SortValuesDescending(
        CustomerTable(GroupBySum(df, by, StrNaN,
                                 IF by = "Country" THEN "Sales" ELSE "Customers")),
        keeps)

CustomersBy(df, by, keeps) ==
    SortValuesDescending(CustomerTable(GroupBySum(df, by, StrNaN, "Customers")), keeps)

\* ------------------------------------------------------------------------
\* One execution of the script from line 85 on, for the widgets' values

\* Lines 103-158 on the filtered table f.  The TypeError at line 110 ends the
\* execution: the lines after it do not run.
Aggregate(f, dtype, sales_by_month, restaurants_by_month, keeps) ==
    IF LabelsRaise(Column(sales_by_month, 1), dtype)
    THEN [status |-> "TypeError", filtered_df |-> f, monthly_summary |-> <<>>,
          customers_by_restaurant |-> <<>>, customers_by_country |-> <<>>]
    ELSE [status |-> "ok", filtered_df |-> f,
          monthly_summary |-> MonthlySummary(sales_by_month, restaurants_by_month),
          customers_by_restaurant |-> CustomersBy(f, "Restaurant_Name", keeps),
          customers_by_country |-> CustomersBy(f, "Country", keeps)]

Dashboard(f, dtype, keeps) ==
    Aggregate(f, dtype,
              GroupBySum(f, "Month", NaN, "Sales"),
              GroupByNUnique(f, "Month", NaN, "Rest_Key", StrNaN),
              keeps)

Script(df, dtype, range, countries, cities, restaurants, keeps) ==
    Dashboard(FilteredDf(df, range, countries, cities, restaurants), dtype, keeps)

\* The widgets exist once the sidebar has been built.
Interactive == status \in {"ok", "TypeError"}

\* Rerun filtering what the previous execution left in filtered_df.
RerunOnFiltered(df, dtype, range, countries, cities, restaurants) ==
    \E out \in {Script(IF Interactive THEN filtered_df ELSE df, dtype, range, countries,
                       cities, restaurants, sort_keeps_ties)} :
        /\ selected_year_range' = range
        /\ selected_countries' = countries
        /\ selected_cities' = cities
        /\ selected_restaurants' = restaurants
        /\ status' = out.status
        /\ filtered_df' = out.filtered_df
        /\ monthly_summary' = out.monthly_summary
        /\ customers_by_restaurant' = out.customers_by_restaurant
        /\ customers_by_country' = out.customers_by_country

\* The widgets hold (range, countries, cities, restaurants); the rest of the
\* script runs on the table df (Month column of type dtype) that load_data()
\* returned.
Rerun(df, dtype, range, countries, cities, restaurants) ==
    \E out \in {Script(df, dtype, range, countries, cities, restaurants, sort_keeps_ties)} :
        /\ selected_year_range' = range
        /\ selected_countries' = countries
        /\ selected_cities' = cities
        /\ selected_restaurants' = restaurants
        /\ status' = out.status
        /\ filtered_df' = out.filtered_df
        /\ monthly_summary' = out.monthly_summary
        /\ customers_by_restaurant' = out.customers_by_restaurant
        /\ customers_by_country' = out.customers_by_country

\* ------------------------------------------------------------------------
\* Initial state and actions

Init ==
    /\ actuals_csv \in CsvFiles
    /\ location_xlsx \in LocationFiles
    /\ sort_keeps_ties \in BOOLEAN
    /\ status = "not_run"
    /\ merged_df = <<>>
    /\ month_dtype = "int32"
    /\ selected_year_range = <<NaN, NaN>>
    /\ selected_countries = {}
    /\ selected_cities = {}
    /\ selected_restaurants = {}
    /\ filtered_df = <<>>
    /\ monthly_summary = <<>>
    /\ customers_by_restaurant = <<>>
    /\ customers_by_country = <<>>

\* The first execution: load_data() runs and is cached, every widget takes its
\* default.  int(NaN) at line 51 raises ValueError when no Date was parsed.
FirstRun ==
    /\ status = "not_run"
    /\ LET loaded == load_data(actuals_csv, location_xlsx)
           df == loaded.merged_df
       IN  /\ merged_df' = df
           /\ month_dtype' = loaded.month_dtype
           /\ IF ValidYears(df) = {}
              THEN /\ status' = "ValueError"
                   /\ UNCHANGED <<selected_year_range, selected_countries, selected_cities,
                                  selected_restaurants, filtered_df, monthly_summary,
                                  customers_by_restaurant, customers_by_country>>
              ELSE Rerun(df, loaded.month_dtype, <<min_year(df), max_year(df)>>,
                         Options(df, "Country"), Options(df, "City"), {})
    /\ UNCHANGED <<actuals_csv, location_xlsx, sort_keeps_ties>>

MoveYearSlider ==
    /\ Interactive
    /\ \E range \in SliderValues(merged_df) \ {selected_year_range} :
           Rerun(merged_df, month_dtype, range, selected_countries, selected_cities, selected_restaurants)
    /\ UNCHANGED <<actuals_csv, location_xlsx, sort_keeps_ties, merged_df, month_dtype>>

SelectCountries ==
    /\ Interactive
    /\ \E countries \in (SUBSET Options(merged_df, "Country")) \ {selected_countries} :
           Rerun(merged_df, month_dtype, selected_year_range, countries, selected_cities, selected_restaurants)
    /\ UNCHANGED <<actuals_csv, location_xlsx, sort_keeps_ties, merged_df, month_dtype>>

SelectCities ==
    /\ Interactive
    /\ \E cities \in (SUBSET Options(merged_df, "City")) \ {selected_cities} :
           Rerun(merged_df, month_dtype, selected_year_range, selected_countries, cities, selected_restaurants)
    /\ UNCHANGED <<actuals_csv, location_xlsx, sort_keeps_ties, merged_df, month_dtype>>

SelectRestaurants ==
    /\ Interactive
    /\ \E restaurants \in (SUBSET Options(merged_df, "Restaurant_Name")) \ {selected_restaurants} :
           Rerun(merged_df, month_dtype, selected_year_range, selected_countries, selected_cities, restaurants)
    /\ UNCHANGED <<actuals_csv, location_xlsx, sort_keeps_ties, merged_df, month_dtype>>

Next ==
    \/ FirstRun
    \/ MoveYearSlider
    \/ SelectCountries
    \/ SelectCities
    \/ SelectRestaurants

Spec == Init /\ [][Next]_vars

\* ------------------------------------------------------------------------
\* Vocabulary of the properties

\* FilterSelection of the specification, section 4.3, as a condition on a row.
YearWithin(r) ==
    /\ r.Year # NaN
    /\ selected_year_range[1] <= r.Year
    /\ r.Year <= selected_year_range[2]

Selected(r, col, selection) == selection = {} \/ r[col] \in selection

CountryCondition(r) == Selected(r, "Country", selected_countries)

CityCondition(r) == Selected(r, "City", selected_cities)

RestaurantCondition(r) == Selected(r, "Restaurant_Name", selected_restaurants)

\* Sum of column col over the first n rows of df, a missing value as 0.
RECURSIVE SumMissingAsZero(_, _, _)
SumMissingAsZero(df, col, n) ==
    IF n = 0 THEN 0
    ELSE SumMissingAsZero(df, col, n - 1) + (IF df[n][col] # NaN THEN df[n][col] ELSE 0)

\* The same sum over the rows of df whose column by holds g.
SumOfGroup(df, col, by, g) ==
    LET rows == SelectSeq(df, LAMBDA r : r[by] = g)
    IN  SumMissingAsZero(rows, col, Len(rows))

RECURSIVE SumColumn(_, _, _)
SumColumn(df, col, n) == IF n = 0 THEN 0 ELSE SumColumn(df, col, n - 1) + df[n][col]

\* Position in df of the first row whose column by holds g.
FirstRow(df, by, g) ==
    CHOOSE i \in DOMAIN df : df[i][by] = g /\ \A j \in 1..(i - 1) : df[j][by] # g

MonthNumber(label) == CHOOSE m \in DOMAIN month_names : month_names[m] = label

DefaultSelection ==
    /\ selected_year_range = <<min_year(merged_df), max_year(merged_df)>>
    /\ selected_countries = Options(merged_df, "Country")
    /\ selected_cities = Options(merged_df, "City")
    /\ selected_restaurants = {}

\* ------------------------------------------------------------------------
\* C1: for each of the three facets, an empty selection gives the output of the
\* filter without that facet's condition: no row is removed for that facet, a
\* row whose value is missing included.
C1_EmptySelectionIsNoFilter ==
    Interactive =>
        /\ selected_countries = {} =>
               filtered_df = SelectSeq(merged_df,
                   LAMBDA r : YearWithin(r) /\ CityCondition(r) /\ RestaurantCondition(r))
        /\ selected_cities = {} =>
               filtered_df = SelectSeq(merged_df,
                   LAMBDA r : YearWithin(r) /\ CountryCondition(r) /\ RestaurantCondition(r))
        /\ selected_restaurants = {} =>
               filtered_df = SelectSeq(merged_df,
                   LAMBDA r : YearWithin(r) /\ CountryCondition(r) /\ CityCondition(r))

\* All three selections are empty although each control offers something, and
\* a row with no Country, City and Restaurant_Name is in the output.
C1_Witness ==
    /\ Interactive
    /\ selected_countries = {} /\ Options(merged_df, "Country") # {}
    /\ selected_cities = {} /\ Options(merged_df, "City") # {}
    /\ selected_restaurants = {} /\ Options(merged_df, "Restaurant_Name") # {}
    /\ \E i \in DOMAIN filtered_df :
           /\ filtered_df[i].Country = StrNaN
           /\ filtered_df[i].City = StrNaN
           /\ filtered_df[i].Restaurant_Name = StrNaN

\* ------------------------------------------------------------------------
\* The output the script gives for the current widgets with no country selected.
SelectNoneOutput ==
    FilteredDf(merged_df, selected_year_range, {}, selected_cities, selected_restaurants)

\* C2 as the specification states it: with every offered country selected the
\* output is the one of selecting none.
C2_SelectAllIsSelectNone ==
    (Interactive /\ selected_countries = Options(merged_df, "Country")) =>
        filtered_df = SelectNoneOutput

\* C2, amended: with every offered country selected (at least one is offered)
\* the output is the one of selecting none without its rows that have no
\* Country; the two are equal exactly when there is no such row.
C2_SelectAllDropsMissingCountry ==
    (Interactive /\ selected_countries = Options(merged_df, "Country")) =>
        IF selected_countries = {}
        THEN filtered_df = SelectNoneOutput
        ELSE /\ filtered_df = SelectSeq(SelectNoneOutput, LAMBDA r : r.Country # StrNaN)
             /\ (filtered_df = SelectNoneOutput) <=>
                    (\A i \in DOMAIN SelectNoneOutput : SelectNoneOutput[i].Country # StrNaN)

\* Every offered country is selected, and selecting none would show a row that
\* has no Country next to one that has.
C2_Witness ==
    /\ Interactive
    /\ selected_countries = Options(merged_df, "Country")
    /\ selected_countries # {}
    /\ filtered_df # <<>>
    /\ \E i \in DOMAIN SelectNoneOutput : SelectNoneOutput[i].Country = StrNaN

\* ------------------------------------------------------------------------
FilterCondition(r) ==
    YearWithin(r) /\ CountryCondition(r) /\ CityCondition(r) /\ RestaurantCondition(r)

\* C3: the output holds exactly the rows of the joined table that satisfy the
\* four conditions, each once and in the table's order; with a country selected
\* every output row has one of the selected countries; a row without Date is
\* never in the output.
C3_FilteredRows ==
    Interactive =>
        /\ \A i \in DOMAIN filtered_df :
               /\ filtered_df[i].index + 1 \in DOMAIN merged_df
               /\ filtered_df[i] = merged_df[filtered_df[i].index + 1]
               /\ FilterCondition(filtered_df[i])
        /\ \A i, j \in DOMAIN filtered_df :
               i < j => filtered_df[i].index < filtered_df[j].index
        /\ \A k \in DOMAIN merged_df :
               FilterCondition(merged_df[k]) =>
                   \E i \in DOMAIN filtered_df : filtered_df[i].index = k - 1
        /\ selected_countries # {} =>
               \A i \in DOMAIN filtered_df :
                   /\ filtered_df[i].Country # StrNaN
                   /\ filtered_df[i].Country \in selected_countries
        /\ \A i \in DOMAIN filtered_df : filtered_df[i].Date # NaT

\* Some but not all offered countries are selected, the year range ends at the
\* year of an output row, and the joined table has a row without Date.
C3_Witness ==
    /\ Interactive
    /\ selected_countries # {}
    /\ selected_countries # Options(merged_df, "Country")
    /\ \E i \in DOMAIN filtered_df : filtered_df[i].Year = selected_year_range[2]
    /\ \E k \in DOMAIN merged_df : merged_df[k].Date = NaT

\* ------------------------------------------------------------------------
\* C4: the Total Sales of the monthly summary add up to the Sales of the
\* filtered set, a missing Sales as 0.
C4_MonthlySalesAddUp ==
    Interactive =>
        SumColumn(monthly_summary, "Total_Sales", Len(monthly_summary)) =
            SumMissingAsZero(filtered_df, "Sales", Len(filtered_df))

\* ------------------------------------------------------------------------
TotalCustomers(table) == SumColumn(table, "Total_Customers", Len(table))

\* C5 as the specification states it: the two customer tables have the same
\* grand total, whatever Country or Restaurant_Name is missing.
C5_SameGrandTotal ==
    Interactive => TotalCustomers(customers_by_country) = TotalCustomers(customers_by_restaurant)

\* C5, amended: the two customer tables have the same grand total when every
\* filtered row that has a Country has a Restaurant_Name and the other way round.
C5_SameGrandTotalWhenBothOrNeither ==
    (/\ Interactive
     /\ \A i \in DOMAIN filtered_df :
            (filtered_df[i].Country = StrNaN) <=> (filtered_df[i].Restaurant_Name = StrNaN))
        => TotalCustomers(customers_by_country) = TotalCustomers(customers_by_restaurant)

\* Both tables are shown with a total above 0, for a filtered set with a row
\* that has neither Country nor Restaurant_Name but has customers.
C5_Witness ==
    /\ status = "ok"
    /\ \A i \in DOMAIN filtered_df :
           (filtered_df[i].Country = StrNaN) <=> (filtered_df[i].Restaurant_Name = StrNaN)
    /\ \E i \in DOMAIN filtered_df :
           filtered_df[i].Country = StrNaN /\ filtered_df[i].Customers > 0
    /\ TotalCustomers(customers_by_country) > 0
    /\ TotalCustomers(customers_by_restaurant) > 0

\* ------------------------------------------------------------------------
UniqueRestKey(xlsx) ==
    \A i, j \in DOMAIN xlsx : xlsx[i].Rest_Key = xlsx[j].Rest_Key => i = j

\* C6: with Rest_Key unique in the location table, the joined table has one row
\* per transaction row, in the same order and with the same transaction fields;
\* its Country, City and Restaurant_Name are those of the location row with the
\* same Rest_Key, or all three missing when there is none.
C6_LeftJoin ==
    (status # "not_run" /\ UniqueRestKey(location_xlsx)) =>
        /\ Len(merged_df) = Len(actuals_csv)
        /\ \A i \in DOMAIN merged_df :
               LET t == actuals_csv[i]
                   row == merged_df[i]
                   here == {j \in DOMAIN location_xlsx : location_xlsx[j].Rest_Key = t.Rest_Key}
               IN  /\ row.Rest_Key = t.Rest_Key
                   /\ row.Date = t.Date
                   /\ row.Sales = t.Sales
                   /\ row.Customers = t.Customers
                   /\ IF here = {}
                      THEN /\ row.Country = StrNaN
                           /\ row.City = StrNaN
                           /\ row.Restaurant_Name = StrNaN
                      ELSE \A j \in here :
                               /\ row.Country = location_xlsx[j].Country
                               /\ row.City = location_xlsx[j].City
                               /\ row.Restaurant_Name = location_xlsx[j].Restaurant_Name

\* The table was joined from two transaction rows: the first matches no
\* location row, the second matches the second location row.
C6_Witness ==
    /\ status # "not_run"
    /\ UniqueRestKey(location_xlsx)
    /\ Len(actuals_csv) = 2
    /\ \A j \in DOMAIN location_xlsx : location_xlsx[j].Rest_Key # actuals_csv[1].Rest_Key
    /\ location_xlsx[2].Rest_Key = actuals_csv[2].Rest_Key
    /\ Len(merged_df) = 2

\* ------------------------------------------------------------------------
MonthsOf(df) == {df[i].Month : i \in DOMAIN df}

\* C7: the monthly summary has one row per month of the filtered set, in
\* ascending month order, labelled Jan..Dec; a row's Total Sales is the sum of
\* the Sales of its month (a missing one as 0) and its Number of Restaurants
\* the number of distinct Rest_Key of its month, a missing key left out.
C7_MonthlySummary ==
    Interactive =>
        /\ Len(monthly_summary) = Cardinality(MonthsOf(filtered_df))
        /\ \A j \in DOMAIN monthly_summary :
               LET m == MonthNumber(monthly_summary[j].Month)
                   InMonth(r) == r.Month = m
               IN  /\ m \in MonthsOf(filtered_df)
                   /\ monthly_summary[j].Total_Sales = SumOfGroup(filtered_df, "Sales", "Month", m)
                   /\ monthly_summary[j].Number_of_Restaurants =
                          Cardinality({filtered_df[i].Rest_Key :
                                          i \in {k \in DOMAIN filtered_df : InMonth(filtered_df[k])}}
                                      \ {StrNaN})
        /\ \A j, k \in DOMAIN monthly_summary :
               j < k => MonthNumber(monthly_summary[j].Month) < MonthNumber(monthly_summary[k].Month)

\* ------------------------------------------------------------------------
GroupsOf(df, by) == {df[i][by] : i \in DOMAIN df} \ {StrNaN}

CustomerTableOf(table, by) ==
    /\ Len(table) = Cardinality(GroupsOf(filtered_df, by))
    /\ {table[j].Group : j \in DOMAIN table} = GroupsOf(filtered_df, by)
    /\ \A j \in DOMAIN table :
           table[j].Total_Customers = SumOfGroup(filtered_df, "Customers", by, table[j].Group)
    /\ \A j \in DOMAIN table :
           j < Len(table) => table[j].Total_Customers >= table[j + 1].Total_Customers

\* C8: each customer table has one row per group key of the filtered set (a
\* missing key is no group) with the group's customers (a missing count as 0),
\* and its totals never increase from a row to the next.
C8_CustomerTables ==
    Interactive =>
        /\ CustomerTableOf(customers_by_restaurant, "Restaurant_Name")
        /\ CustomerTableOf(customers_by_country, "Country")

\* ------------------------------------------------------------------------
EqualTotals(table, i, j) ==
    i < j /\ table[i].Total_Customers = table[j].Total_Customers

TiesInEncounterOrder(table, by) ==
    \A i, j \in DOMAIN table :
        EqualTotals(table, i, j) =>
            FirstRow(filtered_df, by, table[i].Group) < FirstRow(filtered_df, by, table[j].Group)

TiesInKeyOrder(table) ==
    \A i, j \in DOMAIN table :
        EqualTotals(table, i, j) => Ord(table[i].Group) < Ord(table[j].Group)

\* C9 as the specification states it, for a sort that leaves equal elements in
\* place: of two groups with equal totals, the one met first in the filtered
\* set is listed first.
C9_TiesInEncounterOrder ==
    (Interactive /\ sort_keeps_ties) =>
        /\ TiesInEncounterOrder(customers_by_restaurant, "Restaurant_Name")
        /\ TiesInEncounterOrder(customers_by_country, "Country")

\* C9, amended: the sort is given the groups in ascending order of their key,
\* so where it leaves equal elements in place, of two groups with equal totals
\* the one with the smaller key is listed first, in whatever order the filtered
\* set has them.
C9_TiesInKeyOrder ==
    (Interactive /\ sort_keeps_ties) =>
        /\ TiesInKeyOrder(customers_by_restaurant)
        /\ TiesInKeyOrder(customers_by_country)

\* Two restaurants have equal totals, and the filtered set has the one with the
\* greater name first.
C9_Witness ==
    /\ status = "ok"
    /\ sort_keeps_ties
    /\ Len(customers_by_restaurant) = 2
    /\ EqualTotals(customers_by_restaurant, 1, 2)
    /\ FirstRow(filtered_df, "Restaurant_Name", customers_by_restaurant[2].Group)
           < FirstRow(filtered_df, "Restaurant_Name", customers_by_restaurant[1].Group)

\* ------------------------------------------------------------------------
Shown ==
    [status |-> status, filtered_df |-> filtered_df, monthly_summary |-> monthly_summary,
     customers_by_restaurant |-> customers_by_restaurant,
     customers_by_country |-> customers_by_country]

\* C10: once loaded, the joined table is the join of the two files and no
\* interaction changes it; what is shown after an interaction is what the
\* script gives for that table and the current selection, whatever was
\* selected before.
C10_Stateless ==
    /\ [][status # "not_run" =>
             /\ merged_df' = merged_df
             /\ month_dtype' = month_dtype]_vars
    /\ [](status # "not_run" =>
             merged_df = load_data(actuals_csv, location_xlsx).merged_df)
    /\ [](Interactive =>
             Shown = Script(merged_df, month_dtype, selected_year_range, selected_countries,
                            selected_cities, selected_restaurants, sort_keeps_ties))

\* After at least two interactions: a restaurant is selected and no country is,
\* though countries are offered, and the output is a proper part of the table.
C10_Witness ==
    /\ Interactive
    /\ selected_restaurants # {}
    /\ selected_countries = {}
    /\ Options(merged_df, "Country") # {}
    /\ filtered_df # <<>>
    /\ Len(filtered_df) < Len(merged_df)

====
